---- MODULE Spec2Model ----
(***************************************************************************)
(* Monte Carlo population projector: the MonteCarloPredictor class of      *)
(* src/monte_carlo.py and the request handlers of src/app.py that drive    *)
(* it (initialize_data, /api/predict, /api/predict/batch).                 *)
(*                                                                         *)
(* Numbers.  The program computes in IEEE-754 doubles.  A double is        *)
(* modelled as a pair <<n, d>>: for d > 0 the exact rational n/d in lowest *)
(* terms, and for d = 0 one of the three special values <<1,0>> (+inf),    *)
(* <<-1,0>> (-inf) and <<0,0>> (NaN).  Arithmetic is exact on rationals    *)
(* and follows IEEE-754 (as numpy does, which warns but does not raise) on *)
(* the special values and on division by zero.  Square and n-th roots are  *)
(* exact on perfect powers and rounded up to 1/RootScale otherwise.        *)
(***************************************************************************)
EXTENDS Integers, Sequences, FiniteSets, TLC

VARIABLES
    df_raw,            \* app.py df: the raw records read from the file
    predictor_ready,   \* app.py: predictor is not None (initialize_data succeeded)
    df_agg,            \* app.py df_agg = predictor.df_agg: the aggregated series
    historical_stats,  \* predictor.historical_stats: job type -> stats dict
    predictions,       \* predictor.predictions: job type -> last stored prediction
    batch,             \* the arguments of the last batch call (job_types as iterated)
    response           \* what the last call returned to its caller

vars == <<df_raw, predictor_ready, df_agg, historical_stats, predictions, batch, response>>

-----------------------------------------------------------------------------
(* Bounds of the model *)

MaxYears == 3
MaxPop == 2
MaxTarget == 4
MaxSims == 2
MaxCells == 2
MaxBatch == 2

-----------------------------------------------------------------------------
(* IEEE-754 doubles as rationals with inf and NaN *)

RootScale == 10

Abs(x) == IF x < 0 THEN -x ELSE x

Sign(x) == IF x > 0 THEN 1 ELSE IF x < 0 THEN -1 ELSE 0

RECURSIVE GCD(_, _)
GCD(a, b) == IF b = 0 THEN a ELSE GCD(b, a % b)

LCM(a, b) == (a \div GCD(a, b)) * b

Frac(n, d) ==
    IF d = 0 THEN <<Sign(n), 0>>
    ELSE LET s == IF d < 0 THEN -1 ELSE 1
             g == GCD(Abs(n), Abs(d))
         IN  <<(s * n) \div g, (s * d) \div g>>

Num(n) == <<n, 1>>

NaN == <<0, 0>>
PosInf == <<1, 0>>
NegInf == <<-1, 0>>

IsNaN(a) == a = NaN
IsFinite(a) == a[2] # 0

FNeg(a) == <<-a[1], a[2]>>

FAdd(a, b) ==
    IF IsFinite(a) /\ IsFinite(b)
    THEN LET l == LCM(a[2], b[2])
         IN  Frac(a[1] * (l \div a[2]) + b[1] * (l \div b[2]), l)
    ELSE IF IsNaN(a) \/ IsNaN(b) THEN NaN
    ELSE IF ~IsFinite(a) /\ ~IsFinite(b) THEN (IF a = b THEN a ELSE NaN)
    ELSE IF ~IsFinite(a) THEN a ELSE b

FSub(a, b) == FAdd(a, FNeg(b))

FMul(a, b) ==
    IF IsFinite(a) /\ IsFinite(b)
    THEN LET g1 == GCD(Abs(a[1]), b[2])
             g2 == GCD(Abs(b[1]), a[2])
         IN  Frac((a[1] \div g1) * (b[1] \div g2), (a[2] \div g2) * (b[2] \div g1))
    ELSE IF IsNaN(a) \/ IsNaN(b) \/ a[1] = 0 \/ b[1] = 0 THEN NaN
    ELSE <<Sign(a[1]) * Sign(b[1]), 0>>

\* x / 0 is +-inf, 0 / 0 and inf / inf are NaN: numpy scalars warn and go on
FDiv(a, b) ==
    IF IsNaN(a) \/ IsNaN(b) THEN NaN
    ELSE IF ~IsFinite(b) THEN (IF IsFinite(a) THEN Num(0) ELSE NaN)
    ELSE IF ~IsFinite(a) THEN <<a[1] * (IF b[1] < 0 THEN -1 ELSE 1), 0>>
    ELSE IF b[1] = 0 THEN <<Sign(a[1]), 0>>
    ELSE FMul(a, <<Sign(b[1]) * b[2], Abs(b[1])>>)

\* comparisons: every comparison with NaN is false
FLe(a, b) ==
    /\ ~IsNaN(a)
    /\ ~IsNaN(b)
    /\ IF ~IsFinite(a) /\ ~IsFinite(b) THEN a[1] <= b[1]
       ELSE IF ~IsFinite(a) THEN a[1] < 0
       ELSE IF ~IsFinite(b) THEN b[1] > 0
       ELSE LET l == LCM(a[2], b[2])
            IN  a[1] * (l \div a[2]) <= b[1] * (l \div b[2])

FLt(a, b) == FLe(a, b) /\ a # b

IPow(k, e) ==
    LET RECURSIVE Pow(_, _)
        Pow(b, i) == IF i = 0 THEN 1 ELSE b * Pow(b, i - 1)
    IN  Pow(k, e)

\* the smallest k >= 0 with k^p >= x, by doubling and bisection
IRootCeil(x, p) ==
    LET RECURSIVE Double(_)
        Double(k) == IF IPow(k, p) >= x THEN k ELSE Double(2 * k)
        RECURSIVE Bisect(_, _)
        \* invariant: lo^p < x <= hi^p
        Bisect(lo, hi) ==
            IF hi - lo <= 1 THEN hi
            ELSE LET mid == (lo + hi) \div 2
                 IN  IF IPow(mid, p) >= x THEN Bisect(lo, mid) ELSE Bisect(mid, hi)
    IN  IF x <= 0 THEN 0
        ELSE IF x = 1 THEN 1
        ELSE LET top == Double(2) IN Bisect(top \div 2, top)

\* a ** (1/p) for p >= 1: NaN for NaN and for negatives, inf for inf
FRoot(a, p) ==
    IF IsNaN(a) THEN NaN
    ELSE IF ~IsFinite(a) THEN (IF a[1] > 0 THEN PosInf ELSE NaN)
    ELSE IF a[1] < 0 THEN NaN
    ELSE LET rn == IRootCeil(a[1], p)
             rd == IRootCeil(a[2], p)
         IN  IF IPow(rn, p) = a[1] /\ IPow(rd, p) = a[2]
             THEN Frac(rn, rd)
             ELSE Frac(IRootCeil((a[1] * IPow(RootScale, p) + a[2] - 1) \div a[2], p),
                       RootScale)

FSqrt(a) == FRoot(a, 2)

-----------------------------------------------------------------------------
(* numpy reductions over a one-dimensional array (a sequence of doubles) *)

RECURSIVE FSum(_)
FSum(s) == IF s = <<>> THEN Num(0) ELSE FAdd(FSum(SubSeq(s, 1, Len(s) - 1)), s[Len(s)])

\* np.mean: sum / count; the mean of an empty array is 0/0 = NaN
NpMean(s) == FDiv(FSum(s), Num(Len(s)))

\* np.std (ddof = 0): sqrt(mean(|x - mean|^2))
NpStd(s) ==
    LET m == NpMean(s)
        dev == [i \in 1..Len(s) |-> FMul(FSub(s[i], m), FSub(s[i], m))]
    IN  FSqrt(NpMean(dev))

HasNaN(s) == \E i \in 1..Len(s) : IsNaN(s[i])

Sorted(s) == SortSeq(s, FLt)

NpMin(s) == IF HasNaN(s) THEN NaN ELSE Sorted(s)[1]

NpMax(s) == IF HasNaN(s) THEN NaN ELSE Sorted(s)[Len(s)]

\* np.median: the mean of the middle element(s); NaN if any element is NaN
NpMedian(s) ==
    IF HasNaN(s) THEN NaN
    ELSE LET t == Sorted(s)
             n == Len(s)
         IN  IF n % 2 = 1 THEN t[(n + 1) \div 2]
             ELSE FDiv(FAdd(t[n \div 2], t[n \div 2 + 1]), Num(2))

\* np.percentile raises ValueError for q outside [0, 100]
PercentileOk(q) == FLe(Num(0), q) /\ FLe(q, Num(100))

\* np.percentile, method 'linear': virtual index (n-1)*q/100, interpolated
NpPercentile(s, q) ==
    IF HasNaN(s) THEN NaN
    ELSE LET t == Sorted(s)
             n == Len(s)
             v == FMul(Num(n - 1), FDiv(q, Num(100)))
             lo == v[1] \div v[2]
             hi == IF lo + 1 > n - 1 THEN n - 1 ELSE lo + 1
             g == FSub(v, Num(lo))
         IN  FAdd(t[lo + 1], FMul(g, FSub(t[hi + 1], t[lo + 1])))

\* np.clip(x, lo, hi): NaN stays NaN
NpClip(x, lo, hi) ==
    IF IsNaN(x) THEN NaN
    ELSE IF FLt(x, lo) THEN lo
    ELSE IF FLt(hi, x) THEN hi
    ELSE x

-----------------------------------------------------------------------------
(* The aggregated series: a sequence of rows sorted by tahun *)

Years == 1..MaxYears

None == [kind |-> "None"]

Row(y, job, pop) == [tahun |-> y, jenis_pekerjaan |-> job, jumlah_penduduk |-> pop]

\* df[df['jenis_pekerjaan'] == job_type]: a boolean mask keeps the order of df
JobRows(df, job_type) == SelectSeq(df, LAMBDA r : r.jenis_pekerjaan = job_type)

SortByTahun(t) == SortSeq(t, LAMBDA a, b : a.tahun < b.tahun)

-----------------------------------------------------------------------------
(* MonteCarloPredictor.calculate_historical_stats *)

DefaultMeanGrowth == Frac(3, 100)
DefaultStdGrowth == Frac(5, 100)

\* growth[i] = (populations[i] - populations[i-1]) / populations[i-1], i = 1..len-1
GrowthRates(populations) ==
    [i \in 1..(Len(populations) - 1) |->
        FDiv(FSub(Num(populations[i + 1]), Num(populations[i])), Num(populations[i]))]

\* calculate_historical_stats with the length test weakened to len(job_data) < 1:
\* the variant C4 is tested against
StatsFromOneYear(df, job_type) ==
    LET job_data == JobRows(df, job_type)
    IN  IF Len(job_data) < 1 THEN None
        ELSE LET sorted == SortByTahun(job_data)
                 years == [i \in 1..Len(sorted) |-> sorted[i].tahun]
                 populations == [i \in 1..Len(sorted) |-> sorted[i].jumlah_penduduk]
                 growth_rates == GrowthRates(populations)
             IN  [kind |-> "stats",
                  years |-> years,
                  populations |-> populations,
                  current_population |-> Num(populations[Len(populations)]),
                  current_year |-> years[Len(years)],
                  mean_growth |-> IF Len(growth_rates) > 0 THEN NpMean(growth_rates)
                                  ELSE DefaultMeanGrowth,
                  std_growth |-> IF Len(growth_rates) > 1 THEN NpStd(growth_rates)
                                 ELSE DefaultStdGrowth,
                  n_years |-> Len(years)]

CalculateHistoricalStats(df, job_type) ==
    LET job_data == JobRows(df, job_type)
    IN  IF Len(job_data) < 2 THEN None
        ELSE LET sorted == SortByTahun(job_data)
                 years == [i \in 1..Len(sorted) |-> sorted[i].tahun]
                 populations == [i \in 1..Len(sorted) |-> sorted[i].jumlah_penduduk]
                 growth_rates == GrowthRates(populations)
             IN  [kind |-> "stats",
                  years |-> years,
                  populations |-> populations,
                  current_population |-> Num(populations[Len(populations)]),
                  current_year |-> years[Len(years)],
                  mean_growth |-> IF Len(growth_rates) > 0 THEN NpMean(growth_rates)
                                  ELSE DefaultMeanGrowth,
                  std_growth |-> IF Len(growth_rates) > 1 THEN NpStd(growth_rates)
                                 ELSE DefaultStdGrowth,
                  n_years |-> Len(years)]

\* the dict self.historical_stats after self.historical_stats[job_type] = stats
Put(dict, key, value) ==
    [k \in DOMAIN dict \cup {key} |-> IF k = key THEN value ELSE dict[k]]

EmptyDict == [k \in {} |-> None]

-----------------------------------------------------------------------------
(* MonteCarloPredictor.predict_job_growth *)

ClipLow == Frac(-1, 2)
ClipHigh == Num(1)

\* np.random.normal(loc, scale, (n, k)): loc + scale * z for standard-normal
\* draws z; the stream rnd of draws fills the array in row-major order and
\* repeats after MaxCells draws
Draw(rnd, n_cols, i, j) == rnd[(((i - 1) * n_cols + (j - 1)) % MaxCells) + 1]

ClipGrowth(g) == NpClip(g, ClipLow, ClipHigh)

\* a row that starts at the first simulated year, without the column of the
\* current population: the variant C9 is tested against
TrajectoryWithoutStart(current_population, growth_row) ==
    LET f[t \in 1..Len(growth_row)] ==
            IF t = 1 THEN FMul(current_population, FAdd(Num(1), growth_row[1]))
            ELSE FMul(f[t - 1], FAdd(Num(1), growth_row[t]))
    IN  f

\* a row that adds each year's growth to the current population instead of
\* compounding it: the variant C11 is tested against
TrajectoryLinear(current_population, growth_row) ==
    LET f[t \in 1..(Len(growth_row) + 1)] ==
            IF t = 1 THEN current_population
            ELSE FAdd(f[t - 1], FMul(current_population, growth_row[t - 1]))
    IN  f

\* one row of the simulation array: column 0 is the current population and
\* simulations[:, year + 1] = simulations[:, year] * (1 + growth_rates[:, year])
Trajectory(current_population, growth_row) ==
    LET f[t \in 1..(Len(growth_row) + 1)] ==
            IF t = 1 THEN current_population
            ELSE FMul(f[t - 1], FAdd(Num(1), growth_row[t - 1]))
    IN  f

Alpha(confidence_level) == FSub(Num(1), confidence_level)

LowerPercentile(confidence_level) ==
    FMul(FDiv(Alpha(confidence_level), Num(2)), Num(100))

UpperPercentile(confidence_level) ==
    FSub(Num(100), FDiv(Alpha(confidence_level), Num(2)))

Cagr(mean_final, current_population, years_to_predict) ==
    FMul(FSub(FRoot(FDiv(mean_final, current_population), years_to_predict), Num(1)),
         Num(100))

Raised(e) == [kind |-> "raised", error |-> e]

\* lines 89-104: the prediction_stats dict
PredictionStats(job_type, stats, target_year, n_simulations, years_to_predict, final_predictions, lower_percentile, upper_percentile) ==
    [kind |-> "prediction",
     job_type |-> job_type,
     current_year |-> stats.current_year,
     current_population |-> stats.current_population,
     target_year |-> target_year,
     n_simulations |-> n_simulations,
     mean_prediction |-> NpMean(final_predictions),
     median_prediction |-> NpMedian(final_predictions),
     std_prediction |-> NpStd(final_predictions),
     ci_lower |-> NpPercentile(final_predictions, lower_percentile),
     ci_upper |-> NpPercentile(final_predictions, upper_percentile),
     min_prediction |-> NpMin(final_predictions),
     max_prediction |-> NpMax(final_predictions),
     cagr |-> Cagr(NpMean(final_predictions), stats.current_population, years_to_predict)]

\* lines 67-75: the drawn growth rates, clipped
ClippedGrowthRates(stats, n_simulations, years_to_predict, rnd) ==
    [i \in 1..n_simulations |-> [j \in 1..years_to_predict |->
        ClipGrowth(FAdd(stats.mean_growth,
                        FMul(stats.std_growth, Num(Draw(rnd, years_to_predict, i, j)))))]]

\* lines 63-65 and 77-79: the simulation array
Simulations(stats, growth_rates) ==
    [i \in 1..Len(growth_rates) |-> Trajectory(stats.current_population, growth_rates[i])]

\* simulations[:, -1]
FinalPredictions(simulations) ==
    [i \in 1..Len(simulations) |-> simulations[i][Len(simulations[i])]]

Outcome(ret, cache, store) == [ret |-> ret, stats_cache |-> cache, store |-> store]

\* lines 81-112, once the arrays are filled
Summarise(job_type, stats, cache, target_year, n_simulations, years_to_predict, confidence_level, growth_rates, simulations) ==
    IF \/ ~PercentileOk(LowerPercentile(confidence_level))
       \/ ~PercentileOk(UpperPercentile(confidence_level))
       \/ n_simulations = 0
    THEN Outcome(Raised("ValueError"), cache, None)
    ELSE LET Stored(prediction_stats) ==
                 Outcome(prediction_stats, cache,
                         [stats |-> prediction_stats,
                          simulations |-> simulations,
                          growth_rates |-> growth_rates])
         IN  Stored(PredictionStats(job_type, stats, target_year, n_simulations, years_to_predict,
                          FinalPredictions(simulations),
                          LowerPercentile(confidence_level),
                          UpperPercentile(confidence_level)))

\* lines 57-112, with the statistics in hand
Project(job_type, stats, cache, target_year, n_simulations, confidence_level, rnd) ==
    IF stats = None THEN Outcome(None, cache, None)
    ELSE IF target_year - stats.current_year <= 0 THEN Outcome(None, cache, None)
    ELSE IF n_simulations < 0 THEN Outcome(Raised("ValueError"), cache, None)
    ELSE LET Run(growth_rates) ==
                 Summarise(job_type, stats, cache, target_year, n_simulations,
                           target_year - stats.current_year, confidence_level,
                           growth_rates, Simulations(stats, growth_rates))
         IN  Run(ClippedGrowthRates(stats, n_simulations,
                                    target_year - stats.current_year, rnd))

\* lines 48-55: the cached statistics if there are any, else computed and,
\* unless None, cached
StatsFor(cache, df, job_type) ==
    IF job_type \in DOMAIN cache THEN cache[job_type]
    ELSE CalculateHistoricalStats(df, job_type)

Remember(cache, job_type, stats) ==
    IF job_type \notin DOMAIN cache /\ stats # None THEN Put(cache, job_type, stats)
    ELSE cache

\* What one call does: ret is the value returned (None, the prediction_stats
\* dict, or the exception raised), stats_cache the dict self.historical_stats
\* after the call, and store the entry written to self.predictions[job_type]
\* (None when the call returns or raises before line 106).
PredictJobGrowth(cache, df, job_type, target_year, n_simulations, confidence_level, rnd) ==
    LET With(stats) ==
            Project(job_type, stats, Remember(cache, job_type, stats), target_year,
                    n_simulations, confidence_level, rnd)
    IN  With(StatsFor(cache, df, job_type))

-----------------------------------------------------------------------------
(* Inputs *)

ZDraws == {-20, 20}
Streams == [1..MaxCells -> ZDraws]

TargetYears == 2..MaxTarget
NSims == 0..MaxSims
ConfidenceLevels == {Num(-1), Frac(95, 100), Num(1), Frac(3, 2)}

\* job types named by requests: "" is a missing job_type; "Petani" is unknown
\* when the loaded series has no row for it
JobInputs == {"", "Petani"}

\* the table with a row for every (year, job) where pop[y, job] >= 0, ordered
\* by tahun and, within a year, by job type (groupby sorts its keys)
Table(jobs, pop) ==
    LET k == Len(jobs)
        all == [c \in 1..(MaxYears * k) |->
                   Row(((c - 1) \div k) + 1, jobs[((c - 1) % k) + 1],
                       pop[((c - 1) \div k) + 1, jobs[((c - 1) % k) + 1]])]
    IN  SelectSeq(all, LAMBDA r : r.jumlah_penduduk >= 0)

\* series of one job type: any subset of the years, any population 0..MaxPop
SingleJobs == <<"Petani">>
DataSets == {Table(SingleJobs, pop) : pop \in [Years \X {"Petani"} -> -1..MaxPop]}

\* series of two job types, each with the years 1..len[job]
BatchJobs == <<"Guru", "Petani">>
BatchPop(job, y) == IF job = "Petani" THEN y ELSE MaxPop
BatchDataSets ==
    {Table(BatchJobs, [c \in Years \X {"Guru", "Petani"} |->
                          IF c[1] <= len[c[2]] THEN BatchPop(c[2], c[1]) ELSE -1]) :
        len \in [{"Guru", "Petani"} -> 0..MaxYears]}

\* a job type is unknown when the loaded series has no row for it
BatchLists == UNION {[1..k -> {"Petani", "Guru"}] : k \in 0..MaxBatch}

-----------------------------------------------------------------------------
(* app.py: initialize_data *)

NoResponse == [status |-> 0]
NoBatch == [job_types |-> <<>>]

BatchCall(jobs, target_year, n_simulations, confidence_level) ==
    [job_types |-> jobs, target_year |-> target_year, n_simulations |-> n_simulations,
     confidence_level |-> confidence_level]

\* a reload that swaps the series under the predictor already built, whose
\* dicts survive: the variant C5 is tested against
InitializeDataKeepingPredictor(data) ==
    /\ df_raw' = data
    /\ predictor_ready' = TRUE
    /\ df_agg' = data
    /\ historical_stats' = historical_stats
    /\ predictions' = predictions
    /\ batch' = NoBatch
    /\ response' = NoResponse

\* the module is imported: initialize_data() loads the data and builds a new
\* MonteCarloPredictor(df_agg), whose two dicts start empty.  Here the file
\* read is a table that is already clean, with one record for each year and
\* job type: data is that table, with the columns the predictor reads.
InitializeData(data) ==
    /\ df_raw' = data
    /\ predictor_ready' = TRUE
    /\ df_agg' = data
    /\ historical_stats' = EmptyDict
    /\ predictions' = EmptyDict
    /\ batch' = NoBatch
    /\ response' = NoResponse

\* initialize_data() caught an exception: df_agg and predictor stay None
InitFailed ==
    /\ df_raw = <<>>
    /\ predictor_ready = FALSE
    /\ df_agg = <<>>
    /\ historical_stats = EmptyDict
    /\ predictions = EmptyDict
    /\ batch = NoBatch
    /\ response = NoResponse

InitLoaded(data) ==
    /\ df_raw = data
    /\ predictor_ready = TRUE
    /\ df_agg = data
    /\ historical_stats = EmptyDict
    /\ predictions = EmptyDict
    /\ batch = NoBatch
    /\ response = NoResponse

-----------------------------------------------------------------------------
(* app.py: POST /api/predict *)

Error(status, message) == [status |-> status, error |-> message]

PredictResponse(job_type, target_year, n_simulations, confidence_level, ret) ==
    IF ret.kind = "raised" THEN Error(500, ret.error)
    ELSE IF ret = None THEN Error(500, "Prediction failed")
    ELSE [status |-> 200,
          success |-> TRUE,
          prediction |-> ret,
          historical_data |-> SortByTahun(JobRows(df_agg, job_type)),
          parameters |-> [job_type |-> job_type,
                          target_year |-> target_year,
                          n_simulations |-> n_simulations,
                          confidence_level |-> confidence_level]]

ApiPredict(job_type, target_year, n_simulations, confidence_level, rnd) ==
    /\ UNCHANGED <<df_raw, predictor_ready, df_agg, batch>>
    /\ IF ~predictor_ready
       THEN /\ response' = Error(500, "Predictor not initialized")
            /\ UNCHANGED <<historical_stats, predictions>>
       ELSE IF job_type = ""
       THEN /\ response' = Error(400, "Job type is required")
            /\ UNCHANGED <<historical_stats, predictions>>
       ELSE IF JobRows(df_agg, job_type) = <<>>
       THEN /\ response' = Error(404, "Job type not found")
            /\ UNCHANGED <<historical_stats, predictions>>
       ELSE \E out \in {PredictJobGrowth(historical_stats, df_agg, job_type, target_year,
                                        n_simulations, confidence_level, rnd)} :
                /\ historical_stats' = out.stats_cache
                /\ predictions' = IF out.store = None THEN predictions
                                  ELSE Put(predictions, job_type, out.store)
                /\ response' = PredictResponse(job_type, target_year, n_simulations,
                                               confidence_level, out.ret)

-----------------------------------------------------------------------------
(* The batch loops: MonteCarloPredictor.batch_predict and POST /api/predict/batch *)

TopN == 10
DefaultConfidenceLevel == Frac(95, 100)

MaxOf(set) == CHOOSE m \in set : \A x \in set : x <= m

\* df_agg[df_agg['tahun'] == latest_year].nlargest(10, 'jumlah_penduduk')
\*     ['jenis_pekerjaan'].tolist(): the largest first, ties in table order
TopJobs(df) ==
    IF df = <<>> THEN <<>>
    ELSE LET latest_year == MaxOf({df[i].tahun : i \in 1..Len(df)})
             latest == SelectSeq(df, LAMBDA r : r.tahun = latest_year)
             ranked == SortSeq(latest,
                               LAMBDA a, b : a.jumlah_penduduk > b.jumlah_penduduk)
             top == SubSeq(ranked, 1, IF Len(ranked) < TopN THEN Len(ranked) ELSE TopN)
         IN  [i \in 1..Len(top) |-> top[i].jenis_pekerjaan]

\* the stream after a call has taken its draws from it
Advance(rnd, used) == [c \in 1..MaxCells |-> rnd[((c - 1 + used) % MaxCells) + 1]]

DrawsUsed(out) ==
    IF out.store = None THEN 0
    ELSE Len(out.store.growth_rates) * Len(out.store.growth_rates[1])

\* a loop body that puts each result at the front of the list: the variant C3
\* is tested against
BatchStepPrepend(acc, df, job_type, target_year, n_simulations, confidence_level) ==
    LET After(out) ==
            [cache |-> out.stats_cache,
             preds |-> IF out.store = None THEN acc.preds
                       ELSE Put(acc.preds, job_type, out.store),
             results |-> IF out.ret.kind = "prediction"
                         THEN <<out.ret>> \o acc.results
                         ELSE acc.results,
             rnd |-> Advance(acc.rnd, DrawsUsed(out))]
    IN  After(PredictJobGrowth(acc.cache, df, job_type, target_year, n_simulations,
                               confidence_level, acc.rnd))

\* One pass of the loop body: try: result = predict_job_growth(...);
\* if result: results.append(result); except Exception: print(...)
\* acc = [cache, preds, results, rnd] is the state the loop carries.
BatchStep(acc, df, job_type, target_year, n_simulations, confidence_level) ==
    LET After(out) ==
            [cache |-> out.stats_cache,
             preds |-> IF out.store = None THEN acc.preds
                       ELSE Put(acc.preds, job_type, out.store),
             results |-> IF out.ret.kind = "prediction"
                         THEN Append(acc.results, out.ret)
                         ELSE acc.results,
             rnd |-> Advance(acc.rnd, DrawsUsed(out))]
    IN  After(PredictJobGrowth(acc.cache, df, job_type, target_year, n_simulations,
                               confidence_level, acc.rnd))

\* for job_type in job_types: ...
BatchLoop(acc, df, jobs, target_year, n_simulations, confidence_level) ==
    LET after[i \in 0..Len(jobs)] ==
            IF i = 0 THEN acc
            ELSE BatchStep(after[i - 1], df, jobs[i], target_year, n_simulations,
                           confidence_level)
    IN  after[Len(jobs)]

\* MonteCarloPredictor.batch_predict(job_types, target_year, n_simulations)
BatchPredict(jobs, target_year, n_simulations, rnd) ==
    /\ predictor_ready
    /\ UNCHANGED <<df_raw, predictor_ready, df_agg>>
    /\ \E done \in {BatchLoop([cache |-> historical_stats, preds |-> predictions,
                               results |-> <<>>, rnd |-> rnd],
                              df_agg, jobs, target_year, n_simulations,
                              DefaultConfidenceLevel)} :
        /\ historical_stats' = done.cache
        /\ predictions' = done.preds
        /\ batch' = BatchCall(jobs, target_year, n_simulations, DefaultConfidenceLevel)
        /\ response' = [returned |-> done.results]

\* app.py batch_predict: POST /api/predict/batch
ApiBatchPredict(jobs, target_year, n_simulations, confidence_level, rnd) ==
    /\ UNCHANGED <<df_raw, predictor_ready, df_agg>>
    /\ IF ~predictor_ready
       THEN /\ response' = Error(500, "Predictor not initialized")
            /\ UNCHANGED <<historical_stats, predictions, batch>>
       ELSE \E list \in {IF jobs = <<>> THEN TopJobs(df_agg) ELSE jobs} :
            \E done \in {BatchLoop([cache |-> historical_stats, preds |-> predictions,
                                    results |-> <<>>, rnd |-> rnd],
                                   df_agg, list, target_year, n_simulations,
                                   confidence_level)} :
                /\ historical_stats' = done.cache
                /\ predictions' = done.preds
                /\ batch' = BatchCall(list, target_year, n_simulations, confidence_level)
                /\ response' = [status |-> 200,
                                success |-> TRUE,
                                results |-> done.results,
                                parameters |-> [target_year |-> target_year,
                                                n_simulations |-> n_simulations,
                                                confidence_level |-> confidence_level,
                                                total_predictions |-> Len(done.results)]]

-----------------------------------------------------------------------------
(* The single-prediction service *)

Init ==
    \/ InitFailed
    \/ \E data \in DataSets : InitLoaded(data)

Reload == \E data \in DataSets : InitializeData(data)

Predict ==
    \E job_type \in JobInputs, target_year \in TargetYears, n_simulations \in NSims,
       confidence_level \in ConfidenceLevels, rnd \in Streams :
        ApiPredict(job_type, target_year, n_simulations, confidence_level, rnd)

Next == Reload \/ Predict

Spec == Init /\ [][Next]_vars

-----------------------------------------------------------------------------
(* The batch service *)

BatchNSims == 0..1
BatchTargetYears == 3..MaxTarget
BatchConfidenceLevels == {DefaultConfidenceLevel}
BatchStreams == {[c \in 1..MaxCells |-> IF c = 1 THEN -20 ELSE 20]}

InitBatch ==
    \/ InitFailed
    \/ \E data \in BatchDataSets : InitLoaded(data)

ReloadBatch == \E data \in BatchDataSets : InitializeData(data)

EngineBatch ==
    \E jobs \in BatchLists, target_year \in BatchTargetYears, n_simulations \in BatchNSims,
       rnd \in BatchStreams :
        BatchPredict(jobs, target_year, n_simulations, rnd)

ApiBatch ==
    \E jobs \in BatchLists, target_year \in BatchTargetYears, n_simulations \in BatchNSims,
       confidence_level \in BatchConfidenceLevels, rnd \in BatchStreams :
        ApiBatchPredict(jobs, target_year, n_simulations, confidence_level, rnd)

NextBatch == ReloadBatch \/ EngineBatch \/ ApiBatch

SpecBatch == InitBatch /\ [][NextBatch]_vars

-----------------------------------------------------------------------------
(* The single-prediction service over series of the years 2018..2020, among
   them series whose growth ratios are all equal *)

Series(populations) ==
    [i \in 1..Len(populations) |-> Row(2017 + i, "Petani", populations[i])]

ExampleSeries == Series(<<100, 110, 121>>)

DetDataSets ==
    {ExampleSeries, Series(<<1, 2, 4>>), Series(<<4, 2, 1>>), Series(<<2, 2, 2>>),
     Series(<<1, 3, 9>>), Series(<<1, 2, 2>>), Series(<<2, 1, 2>>), Series(<<1, 2>>)}

DetTargetYears == {2020, 2021, 2022}
DetNSims == {1, 2}
DetConfidenceLevels == {Frac(1, 2), Frac(95, 100)}

InitDet == \E data \in DetDataSets : InitLoaded(data)

ReloadDet == \E data \in DetDataSets : InitializeData(data)

PredictDet ==
    \E target_year \in DetTargetYears, n_simulations \in DetNSims,
       confidence_level \in DetConfidenceLevels, rnd \in Streams :
        ApiPredict("Petani", target_year, n_simulations, confidence_level, rnd)

NextDet == ReloadDet \/ PredictDet

SpecDet == InitDet /\ [][NextDet]_vars

-----------------------------------------------------------------------------
(* data_processor.py: DataPreprocessor.  A cell of the raw table is the text
   of a field of the file, a sequence of characters. *)

MaxRecords == 3

DigitChars == <<"0", "1", "2", "3", "4", "5", "6", "7", "8", "9">>
LowerChars == <<"a", "b">>
UpperChars == <<"A", "B">>

IsDigit(c) == \E i \in 1..Len(DigitChars) : DigitChars[i] = c
DigitValue(c) == (CHOOSE i \in 1..Len(DigitChars) : DigitChars[i] = c) - 1

RECURSIVE DigitsValue(_)
DigitsValue(cell) ==
    IF cell = <<>> THEN 0
    ELSE 10 * DigitsValue(SubSeq(cell, 1, Len(cell) - 1)) + DigitValue(cell[Len(cell)])

\* pd.to_numeric(column, errors='coerce') on one cell: the number the text
\* writes, NaN for a text that writes none
ToNumeric(cell) ==
    IF cell # <<>> /\ \A i \in 1..Len(cell) : IsDigit(cell[i])
    THEN Num(DigitsValue(cell))
    ELSE NaN

IsLower(c) == \E i \in 1..Len(LowerChars) : LowerChars[i] = c
IsUpper(c) == \E i \in 1..Len(UpperChars) : UpperChars[i] = c
IsCased(c) == IsLower(c) \/ IsUpper(c)

ToUpper(c) == IF IsLower(c) THEN UpperChars[CHOOSE i \in 1..Len(LowerChars) : LowerChars[i] = c] ELSE c
ToLower(c) == IF IsUpper(c) THEN LowerChars[CHOOSE i \in 1..Len(UpperChars) : UpperChars[i] = c] ELSE c

\* str.strip(): without the white space at both ends
StrStrip(text) ==
    LET inked == {i \in 1..Len(text) : text[i] # " "}
    IN  IF inked = {} THEN <<>>
        ELSE SubSeq(text, CHOOSE i \in inked : \A k \in inked : i <= k, MaxOf(inked))

\* str.title(): a cased character in upper case when the character before it
\* is not cased, in lower case when it is
StrTitle(text) ==
    [i \in 1..Len(text) |->
        IF i > 1 /\ IsCased(text[i - 1]) THEN ToLower(text[i]) ELSE ToUpper(text[i])]

\* clean_data: fills says whether the chained fillna(0, inplace=True) of line
\* 22 reaches the frame (it works on a copy under copy-on-write)
CleanRecord(r, fills) ==
    [tahun |-> ToNumeric(r.tahun),
     jenis_pekerjaan |-> StrTitle(StrStrip(r.jenis_pekerjaan)),
     jumlah_penduduk |-> IF fills /\ IsNaN(ToNumeric(r.jumlah_penduduk)) THEN Num(0)
                         ELSE ToNumeric(r.jumlah_penduduk)]

CleanData(raw, fills) ==
    LET coerced == [i \in 1..Len(raw) |-> CleanRecord(raw[i], fills)]
        kept == SelectSeq(coerced, LAMBDA r : ~IsNaN(r.tahun))
    IN  [i \in 1..Len(kept) |-> [kept[i] EXCEPT !.tahun = kept[i].tahun[1]]]

CharCode(c) ==
    IF c = " " THEN 32
    ELSE IF IsDigit(c) THEN 48 + DigitValue(c)
    ELSE IF IsUpper(c) THEN 64 + (CHOOSE i \in 1..Len(UpperChars) : UpperChars[i] = c)
    ELSE 96 + (CHOOSE i \in 1..Len(LowerChars) : LowerChars[i] = c)

\* the order of strings
RECURSIVE TextLess(_, _)
TextLess(a, b) ==
    IF b = <<>> THEN FALSE
    ELSE IF a = <<>> THEN TRUE
    ELSE IF a[1] # b[1] THEN CharCode(a[1]) < CharCode(b[1])
    ELSE TextLess(Tail(a), Tail(b))

SameGroup(a, b) == a.tahun = b.tahun /\ a.jenis_pekerjaan = b.jenis_pekerjaan

\* groupby(...)['jumlah_penduduk'].sum(): NaN is skipped
GroupSum(rows) ==
    FSum([i \in 1..Len(SelectSeq(rows, LAMBDA r : ~IsNaN(r.jumlah_penduduk))) |->
             SelectSeq(rows, LAMBDA r : ~IsNaN(r.jumlah_penduduk))[i].jumlah_penduduk])[1]

\* lines 41-44: one row for each (tahun, jenis_pekerjaan), in the order of the keys
Grouped(clean) ==
    LET firsts == {i \in 1..Len(clean) : \A k \in 1..(i - 1) : ~SameGroup(clean[k], clean[i])}
        keys == SelectSeq([i \in 1..Len(clean) |-> [at |-> i, row |-> clean[i]]],
                          LAMBDA e : e.at \in firsts)
        ordered == SortSeq(keys, LAMBDA a, b :
                       \/ a.row.tahun < b.row.tahun
                       \/ /\ a.row.tahun = b.row.tahun
                          /\ TextLess(a.row.jenis_pekerjaan, b.row.jenis_pekerjaan))
    IN  [i \in 1..Len(ordered) |->
            [tahun |-> ordered[i].row.tahun,
             jenis_pekerjaan |-> ordered[i].row.jenis_pekerjaan,
             jumlah_penduduk |->
                 GroupSum(SelectSeq(clean, LAMBDA r : SameGroup(r, ordered[i].row)))]]

\* lines 46-48: the total of a year
TotalPopulation(aggregated, tahun) ==
    FSum([i \in 1..Len(SelectSeq(aggregated, LAMBDA r : r.tahun = tahun)) |->
             Num(SelectSeq(aggregated, LAMBDA r : r.tahun = tahun)[i].jumlah_penduduk)])[1]

\* aggregate_data
AggregateData(clean) ==
    LET Merged(aggregated) ==
            [i \in 1..Len(aggregated) |->
                [tahun |-> aggregated[i].tahun,
                 jenis_pekerjaan |-> aggregated[i].jenis_pekerjaan,
                 jumlah_penduduk |-> aggregated[i].jumlah_penduduk,
                 total_population |-> TotalPopulation(aggregated, aggregated[i].tahun),
                 percentage |->
                     FMul(FDiv(Num(aggregated[i].jumlah_penduduk),
                               Num(TotalPopulation(aggregated, aggregated[i].tahun))),
                          Num(100))]]
    IN  Merged(Grouped(clean))

\* get_processed_data()[1]
GetProcessedData(raw, fills) == AggregateData(CleanData(raw, fills))

\* initialize_data() over a raw file
LoadData(raw) ==
    \E fills \in BOOLEAN :
        /\ df_raw' = raw
        /\ predictor_ready' = TRUE
        /\ df_agg' = GetProcessedData(raw, fills)
        /\ historical_stats' = EmptyDict
        /\ predictions' = EmptyDict
        /\ batch' = NoBatch
        /\ response' = NoResponse

Loaded(raw) ==
    \E fills \in BOOLEAN :
        /\ df_raw = raw
        /\ predictor_ready = TRUE
        /\ df_agg = GetProcessedData(raw, fills)
        /\ historical_stats = EmptyDict
        /\ predictions = EmptyDict
        /\ batch = NoBatch
        /\ response = NoResponse

\* the raw files: up to MaxRecords records of a year, a label and a count
RawYearCells == {<<"1">>, <<"2">>, <<"2", "x">>}
RawLabels == {<<"a">>, <<" ", "A", " ">>, <<"a", "B">>, <<"b", " ", "a">>}
RawPopCells == {<<"0">>, <<"1", "0">>, <<"n", "a">>}

RawRecords ==
    [tahun : RawYearCells, jenis_pekerjaan : RawLabels, jumlah_penduduk : RawPopCells]

RawTables == UNION {[1..k -> RawRecords] : k \in 0..MaxRecords}

ReloadTables == {t \in [1..1 -> RawRecords] : t[1].jenis_pekerjaan = <<"a">>}

InitAgg == \E raw \in RawTables : Loaded(raw)

ReloadAgg == \E raw \in ReloadTables : LoadData(raw)

NextAgg == ReloadAgg

SpecAgg == InitAgg /\ [][NextAgg]_vars

-----------------------------------------------------------------------------
(* Properties *)

IsPrediction(r) == "prediction" \in DOMAIN r

InOpenUnit(x) == FLt(Num(0), x) /\ FLt(x, Num(1))

NumericFields ==
    {"current_population", "mean_prediction", "median_prediction", "std_prediction",
     "ci_lower", "ci_upper", "min_prediction", "max_prediction", "cagr"}

\* the terminal-year values of the ensemble stored for a job type
StoredFinals(job_type) == FinalPredictions(predictions[job_type].simulations)

HasZeroPopulation(df, job_type) ==
    \E i \in 1..Len(df) : df[i].jenis_pekerjaan = job_type /\ df[i].jumlah_penduduk = 0

\* the last historical year of a job type with at least one row
LastYear(df, job_type) ==
    MaxOf({df[i].tahun : i \in {k \in 1..Len(df) : df[k].jenis_pekerjaan = job_type}})

ClaimedLowerPercentile(confidence_level) == FMul(Num(50), FSub(Num(1), confidence_level))
ClaimedUpperPercentile(confidence_level) ==
    FSub(Num(100), ClaimedLowerPercentile(confidence_level))

\* C1: for a confidence level strictly between 0 and 1, ci_lower is the
\* percentile 50*(1-c) and ci_upper the percentile 100 - 50*(1-c) of the
\* terminal-year values (2.5 and 97.5 for c = 0.95).
C1_SymmetricPercentiles ==
    (IsPrediction(response) /\ InOpenUnit(response.parameters.confidence_level)) =>
        LET c == response.parameters.confidence_level
            finals == StoredFinals(response.parameters.job_type)
        IN  /\ response.prediction.ci_lower =
                   NpPercentile(finals, ClaimedLowerPercentile(c))
            /\ response.prediction.ci_upper =
                   NpPercentile(finals, ClaimedUpperPercentile(c))

\* C2: a request of /api/predict whose target_year is not after the last
\* historical year of its job type is answered as a validation failure (the
\* status 400 the handler gives its other validation failure), stores no
\* prediction and returns none.
C2_InvalidTargetYearRejected ==
    [][\A job_type \in JobInputs, target_year \in TargetYears, n_simulations \in NSims,
          confidence_level \in ConfidenceLevels, rnd \in Streams :
         (/\ predictor_ready
          /\ Len(JobRows(df_agg, job_type)) >= 2
          /\ target_year <= LastYear(df_agg, job_type)
          /\ ApiPredict(job_type, target_year, n_simulations, confidence_level, rnd))
         => (/\ response'.status = 400
             /\ predictions' = predictions)]_vars

\* the list a batch call returned, once one has
IsBatchResponse(r) == "results" \in DOMAIN r \/ "returned" \in DOMAIN r

BatchResults(r) == IF "results" \in DOMAIN r THEN r.results ELSE r.returned

\* what makes a category of the last batch call succeed, read off the loaded
\* series and the call's shared parameters
Succeeds(job_type) ==
    /\ Len(JobRows(df_agg, job_type)) >= 2
    /\ batch.target_year > LastYear(df_agg, job_type)
    /\ batch.n_simulations >= 1

\* C3: a batch call goes through its whole list whatever fails in it: the list
\* it returns holds one record for each category of the list that succeeds, in
\* the order of the list, each for the call's target year and number of
\* simulations, the record of a category's last occurrence being the one
\* stored for it; total_predictions is the length of the returned list.
C3_BatchReturnsSuccessesInOrder ==
    IsBatchResponse(response) =>
        LET results == BatchResults(response)
            expected == SelectSeq(batch.job_types, Succeeds)
        IN  /\ Len(results) = Len(expected)
            /\ \A i \in 1..Len(results) :
                   /\ results[i].kind = "prediction"
                   /\ results[i].job_type = expected[i]
                   /\ results[i].target_year = batch.target_year
                   /\ results[i].n_simulations = batch.n_simulations
                   /\ (\A k \in (i + 1)..Len(expected) : expected[k] # expected[i])
                          => results[i] = predictions[expected[i]].stats
            /\ "parameters" \in DOMAIN response
                   => response.parameters.total_predictions = Len(results)

\* a batch of two categories whose first fails and whose second succeeds
C3_Witness ==
    /\ IsBatchResponse(response)
    /\ "parameters" \in DOMAIN response
    /\ Len(batch.job_types) = 2
    /\ ~Succeeds(batch.job_types[1])
    /\ Succeeds(batch.job_types[2])
    /\ Len(response.results) = 1
    /\ response.parameters.total_predictions = 1

\* C4: a category absent from the series or with fewer than 2 years has no
\* statistics and no prediction; a category with n >= 2 years that a batch
\* call went through has statistics with n_years = n years and n - 1 growth
\* ratios (so that with n = 2 the single ratio leaves std_growth at its
\* default).
C4_InsufficientHistory ==
    /\ \A job_type \in DOMAIN historical_stats :
           LET n == Len(JobRows(df_agg, job_type))
               stats == historical_stats[job_type]
           IN  /\ n >= 2
               /\ stats.n_years = n
               /\ Len(stats.years) = n
               /\ Len(stats.populations) = n
               /\ Len(GrowthRates(stats.populations)) = n - 1
               /\ (n = 2 => stats.std_growth = DefaultStdGrowth)
    /\ \A job_type \in DOMAIN predictions : Len(JobRows(df_agg, job_type)) >= 2
    /\ IsBatchResponse(response) =>
           /\ \A i \in 1..Len(BatchResults(response)) :
                  Len(JobRows(df_agg, BatchResults(response)[i].job_type)) >= 2
           /\ \A i \in 1..Len(batch.job_types) :
                  Len(JobRows(df_agg, batch.job_types[i])) >= 2
                      <=> batch.job_types[i] \in DOMAIN historical_stats

\* a batch over a category with a single year and one with three years: only
\* the second has statistics
C4_Witness ==
    /\ IsBatchResponse(response)
    /\ \E i, k \in 1..Len(batch.job_types) :
           /\ Len(JobRows(df_agg, batch.job_types[i])) = 1
           /\ batch.job_types[i] \notin DOMAIN historical_stats
           /\ Len(JobRows(df_agg, batch.job_types[k])) = 3
           /\ batch.job_types[k] \in DOMAIN historical_stats
           /\ historical_stats[batch.job_types[k]].n_years = 3

\* the population of a job type in its last historical year
CurrentPopulation(df, job_type) ==
    LET last == SelectSeq(df, LAMBDA r : r.jenis_pekerjaan = job_type
                                         /\ r.tahun = LastYear(df, job_type))
    IN  Num(last[1].jumlah_penduduk)

\* C5: whatever requests and reloads came before, the statistics the predictor
\* holds for a category are those of the series now loaded, and a returned
\* prediction starts from the last year and population of that series.
C5_CacheNeverStale ==
    /\ \A job_type \in DOMAIN historical_stats :
           historical_stats[job_type] = CalculateHistoricalStats(df_agg, job_type)
    /\ \A job_type \in DOMAIN predictions : job_type \in DOMAIN historical_stats
    /\ IsPrediction(response) =>
           /\ response.parameters.job_type \in DOMAIN historical_stats
           /\ response.prediction.current_year =
                  LastYear(df_agg, response.parameters.job_type)
           /\ response.prediction.current_population =
                  CurrentPopulation(df_agg, response.parameters.job_type)

\* a prediction answered from statistics that are in the cache
C5_Witness ==
    /\ IsPrediction(response)
    /\ response.parameters.job_type \in DOMAIN historical_stats
    /\ historical_stats[response.parameters.job_type].n_years = 3

\* C6: for a job type with a zero population in a historical year, no numeric
\* field of a returned prediction is NaN or infinite.
C6_NoNaNOrInfinity ==
    (IsPrediction(response) /\ HasZeroPopulation(df_agg, response.parameters.job_type)) =>
        \A f \in NumericFields : IsFinite(response.prediction[f])

\* C7: a prediction is returned only for a confidence level strictly between
\* 0 and 1, and never with ci_lower > ci_upper.
C7_ConfidenceLevelValidated ==
    IsPrediction(response) =>
        /\ InOpenUnit(response.parameters.confidence_level)
        /\ ~FLt(response.prediction.ci_upper, response.prediction.ci_lower)

\* C8: every prediction returned for a confidence level strictly between 0 and
\* 1 has min <= ci_lower <= median <= ci_upper <= max.
C8_IntervalOrdered ==
    (IsPrediction(response) /\ InOpenUnit(response.parameters.confidence_level)) =>
        /\ FLe(response.prediction.min_prediction, response.prediction.ci_lower)
        /\ FLe(response.prediction.ci_lower, response.prediction.median_prediction)
        /\ FLe(response.prediction.median_prediction, response.prediction.ci_upper)
        /\ FLe(response.prediction.ci_upper, response.prediction.max_prediction)

\* C9: the ensemble stored for a prediction has n_simulations rows of
\* target_year - current_year + 1 columns, column 0 holding the current
\* population of the category in every row; the prediction returned is the one
\* stored with it.
C9_EnsembleShape ==
    /\ \A job_type \in DOMAIN predictions :
           LET p == predictions[job_type]
           IN  /\ p.stats.n_simulations >= 1
               /\ p.stats.target_year > LastYear(df_agg, job_type)
               /\ Len(p.simulations) = p.stats.n_simulations
               /\ \A i \in 1..Len(p.simulations) :
                      /\ Len(p.simulations[i]) =
                             p.stats.target_year - LastYear(df_agg, job_type) + 1
                      /\ p.simulations[i][1] = CurrentPopulation(df_agg, job_type)
    /\ IsPrediction(response) =>
           /\ response.parameters.job_type \in DOMAIN predictions
           /\ predictions[response.parameters.job_type].stats = response.prediction
           /\ response.prediction.n_simulations = response.parameters.n_simulations
           /\ response.prediction.target_year = response.parameters.target_year

\* two simulations over two years: an ensemble of 2 rows and 3 columns
C9_Witness ==
    /\ IsPrediction(response)
    /\ response.parameters.n_simulations = 2
    /\ response.parameters.target_year =
           LastYear(df_agg, response.parameters.job_type) + 2
    /\ Len(predictions[response.parameters.job_type].simulations) = 2
    /\ Len(predictions[response.parameters.job_type].simulations[1]) = 3

\* C10: every growth rate of a stored projection lies in [-0.5, 1.0], and every
\* simulated year's value lies between half and twice the year before.
C10_GrowthClipped ==
    \A job_type \in DOMAIN predictions :
        LET p == predictions[job_type]
        IN  \A i \in 1..Len(p.growth_rates) : \A j \in 1..Len(p.growth_rates[i]) :
                /\ FLe(ClipLow, p.growth_rates[i][j])
                /\ FLe(p.growth_rates[i][j], ClipHigh)
                /\ FLe(FMul(Frac(1, 2), p.simulations[i][j]), p.simulations[i][j + 1])
                /\ FLe(p.simulations[i][j + 1], FMul(Num(2), p.simulations[i][j]))

\* a^k for a natural number k
RECURSIVE FPow(_, _)
FPow(a, k) == IF k = 0 THEN Num(1) ELSE FMul(FPow(a, k - 1), a)

\* C11: a prediction of one simulation from statistics with std_growth = 0 and
\* mean_growth in [-0.5, 1.0] has the single terminal value
\* current_population * (1 + mean_growth)^years_to_predict, and its mean,
\* median, min, max, ci_lower and ci_upper are that value; the series
\* 100, 110, 121 of 2018..2020 has mean_growth 0.10 and std_growth 0 and its
\* terminal value for 2022 is 146.41.
C11_DeterministicProjection ==
    (IsPrediction(response) /\ response.parameters.n_simulations = 1) =>
        LET job_type == response.parameters.job_type
            stats == historical_stats[job_type]
            p == response.prediction
            terminal == FMul(stats.current_population,
                             FPow(FAdd(Num(1), stats.mean_growth),
                                  response.parameters.target_year - stats.current_year))
        IN  /\ (/\ stats.std_growth = Num(0)
                /\ FLe(Frac(-1, 2), stats.mean_growth)
                /\ FLe(stats.mean_growth, Num(1)))
                   => /\ StoredFinals(job_type) = <<terminal>>
                      /\ p.mean_prediction = terminal
                      /\ p.median_prediction = terminal
                      /\ p.min_prediction = terminal
                      /\ p.max_prediction = terminal
                      /\ p.ci_lower = terminal
                      /\ p.ci_upper = terminal
            /\ (df_agg = ExampleSeries /\ response.parameters.target_year = 2022)
                   => /\ stats.mean_growth = Frac(10, 100)
                      /\ stats.std_growth = Num(0)
                      /\ p.mean_prediction = Frac(14641, 100)

\* the series 100, 110, 121 projected to 2022 by one simulation
C11_Witness ==
    /\ df_agg = ExampleSeries
    /\ IsPrediction(response)
    /\ response.parameters.n_simulations = 1
    /\ response.parameters.target_year = 2022
    /\ historical_stats["Petani"].std_growth = Num(0)
    /\ response.prediction.max_prediction = Frac(14641, 100)

\* the count a raw record contributes: 0 for a text that writes no number
PopOrZero(r) ==
    IF IsNaN(ToNumeric(r.jumlah_penduduk)) THEN 0 ELSE ToNumeric(r.jumlah_penduduk)[1]

\* the raw record is of the year and, once its label is trimmed and
\* title-cased, of the category
InPair(r, tahun, label) ==
    /\ ToNumeric(r.tahun) = Num(tahun)
    /\ StrTitle(StrStrip(r.jenis_pekerjaan)) = label

RECURSIVE RawSum(_, _, _)
RawSum(raw, tahun, label) ==
    IF raw = <<>> THEN 0
    ELSE RawSum(Tail(raw), tahun, label)
             + (IF InPair(Head(raw), tahun, label) THEN PopOrZero(Head(raw)) ELSE 0)

RECURSIVE RawYearSum(_, _)
RawYearSum(raw, tahun) ==
    IF raw = <<>> THEN 0
    ELSE RawYearSum(Tail(raw), tahun)
             + (IF ToNumeric(Head(raw).tahun) = Num(tahun) THEN PopOrZero(Head(raw)) ELSE 0)

\* the percentages of the rows of a year
PercentagesOf(aggregated, tahun) ==
    [i \in 1..Len(SelectSeq(aggregated, LAMBDA r : r.tahun = tahun)) |->
        SelectSeq(aggregated, LAMBDA r : r.tahun = tahun)[i].percentage]

\* the rows of the aggregated series are the pairs of the raw records with
\* a year, one row a pair, each with the sum of its records' counts
RowsAreSums ==
    /\ \A i, k \in 1..Len(df_agg) : SameGroup(df_agg[i], df_agg[k]) => i = k
    /\ \A i \in 1..Len(df_agg) :
           /\ \E k \in 1..Len(df_raw) :
                  InPair(df_raw[k], df_agg[i].tahun, df_agg[i].jenis_pekerjaan)
           /\ df_agg[i].jumlah_penduduk =
                  RawSum(df_raw, df_agg[i].tahun, df_agg[i].jenis_pekerjaan)
           /\ df_agg[i].total_population = RawYearSum(df_raw, df_agg[i].tahun)
    /\ \A k \in 1..Len(df_raw) :
           ~IsNaN(ToNumeric(df_raw[k].tahun)) =>
               \E i \in 1..Len(df_agg) :
                   InPair(df_raw[k], df_agg[i].tahun, df_agg[i].jenis_pekerjaan)

\* C12: the aggregated series has one row for each (year, category) of the
\* raw records, the category being the trimmed, title-cased label; the row's
\* population is the sum of the pair's counts, a text that is no number
\* counting 0 and a record whose year is no number being dropped; its
\* percentage is 100 * population / yearly total; and the percentages of
\* every year in the series sum to 100.
C12_AggregationInvariants ==
    /\ RowsAreSums
    /\ \A i \in 1..Len(df_agg) :
           /\ df_agg[i].percentage =
                  FDiv(Num(100 * df_agg[i].jumlah_penduduk), Num(df_agg[i].total_population))
           /\ FSum(PercentagesOf(df_agg, df_agg[i].tahun)) = Num(100)

====
